---- MODULE Spec2Model ----
(***************************************************************************)
(* Model of the LaTeX proxy server (src/server.js): the POST /api/compile  *)
(* handler, its archive building, its translation of remote failures, and  *)
(* the parseLatexErrors helper.                                            *)
(*                                                                         *)
(* JavaScript strings whose characters matter (response messages, remote   *)
(* log text) are sequences of one-character strings.  Strings of which     *)
(* only the length and truthiness matter (latexCode, file contents) are    *)
(* records carrying their length.                                          *)
(***************************************************************************)
EXTENDS Integers, Sequences, FiniteSets, TLC

VARIABLES
    pc,            \* position of the handler of the request in flight
    req,           \* req.body: latexCode and projectFiles as received
    projectFiles,  \* the handler's local: req.body.projectFiles || []
    pack,          \* the tar-stream pack of the request
    idx,           \* position of the for..of loop over projectFiles
    tarballBuffer, \* length of the gzipped archive (0 until it is complete)
    remoteCalls,   \* number of axios.post calls made for the request
    error,         \* the exception the handler's catch block receives
    parseFailed,   \* the catch block's inner try caught an exception
    responses,     \* the responses sent on res, in order
    socket,        \* the request's socket: "open" or "destroyed"
    log,           \* parseLatexErrors check: the log text parsed
    parsed         \* parseLatexErrors check: the list returned

vars == <<pc, req, projectFiles, pack, idx, tarballBuffer, remoteCalls, error,
          parseFailed, responses, socket, log, parsed>>

-----------------------------------------------------------------------------
(* Bounds of the model *)

\* longest projectFiles list enumerated entry by entry
MaxFiles == 2

\* most lines of a log text enumerated line by line
MaxLogLines == 2

-----------------------------------------------------------------------------
(* Limits set by the program *)

MaxLatexLen == 1024 * 1024

MaxProjectFiles == 50

MaxImageBytes == 10 * 1024 * 1024

MaxTextLen == 1024 * 1024

MaxTarballBytes == 50 * 1024 * 1024

MaxErrorMessageLen == 1000

MaxErrors == 20

MaxDiagnosticLen == 200

-----------------------------------------------------------------------------
(* String literals of the program *)

MsgLatexRequired ==
    <<"V", "a", "l", "i", "d", " ", "L", "a", "T", "e", "X", " ", "c", "o", "d", "e", " ", "i", "s", " ", "r", "e", "q", "u", "i", "r", "e", "d">>

MsgLatexTooLarge ==
    <<"L", "a", "T", "e", "X", " ", "c", "o", "d", "e", " ", "i", "s", " ", "t", "o", "o", " ", "l", "a", "r", "g", "e">>

MsgInvalidFiles ==
    <<"I", "n", "v", "a", "l", "i", "d", " ", "p", "r", "o", "j", "e", "c", "t", " ", "f", "i", "l", "e", "s">>

MsgProjectTooLarge ==
    <<"P", "r", "o", "j", "e", "c", "t", " ", "s", "i", "z", "e", " ", "e", "x", "c", "e", "e", "d", "s", " ", "l", "i", "m", "i", "t">>

MsgCompilationFailed ==
    <<"C", "o", "m", "p", "i", "l", "a", "t", "i", "o", "n", " ", "f", "a", "i", "l", "e", "d">>

MsgTimeout ==
    <<"C", "o", "m", "p", "i", "l", "a", "t", "i", "o", "n", " ", "t", "i", "m", "e", "o", "u", "t">>

MsgUnavailable ==
    <<"S", "e", "r", "v", "i", "c", "e", " ", "t", "e", "m", "p", "o", "r", "a", "r", "i", "l", "y", " ", "u", "n", "a", "v", "a", "i", "l", "a", "b", "l", "e">>

ErrorPrefix ==
    <<"!", " ">>

WarningPrefix ==
    <<"L", "a", "T", "e", "X", " ", "W", "a", "r", "n", "i", "n", "g", ":", " ">>

-----------------------------------------------------------------------------
(* JavaScript string and regular-expression primitives the program uses *)

Min(a, b) == IF a < b THEN a ELSE b

Max(a, b) == IF a > b THEN a ELSE b

\* s.substring(0, n) and list.slice(0, n)
Take(s, n) == SubSeq(s, 1, Min(n, Len(s)))

\* the characters the pattern \d matches
Digit == {"0", "1", "2", "3", "4", "5", "6", "7", "8", "9"}

\* the characters the pattern . does not match (no s flag)
LineTerminator == {"\n", "\r"}

DigitValue(c) ==
    CASE c = "0" -> 0 [] c = "1" -> 1 [] c = "2" -> 2 [] c = "3" -> 3
      [] c = "4" -> 4 [] c = "5" -> 5 [] c = "6" -> 6 [] c = "7" -> 7
      [] c = "8" -> 8 [] c = "9" -> 9

\* parseInt of a run of decimal digits
RECURSIVE parseInt(_)
parseInt(ds) ==
    IF ds = <<>> THEN 0
    ELSE 10 * parseInt(SubSeq(ds, 1, Len(ds) - 1)) + DigitValue(ds[Len(ds)])

\* log.split('\n'): the pieces between the newlines, empty pieces included
RECURSIVE Split(_)
Split(text) ==
    IF \A k \in 1..Len(text) : text[k] # "\n" THEN <<text>>
    ELSE LET p == CHOOSE k \in 1..Len(text) :
                      /\ text[k] = "\n"
                      /\ \A j \in 1..(k - 1) : text[j] # "\n"
         IN  <<SubSeq(text, 1, p - 1)>> \o Split(SubSeq(text, p + 1, Len(text)))

NoMatch == [matched |-> FALSE, group |-> <<>>]

\* line.match(/^<prefix>(.+)$/): the prefix at the start of the input, then
\* one or more characters that are not line terminators, up to its end
MatchPrefixed(prefix, line) ==
    LET n == Len(prefix)
    IN  IF /\ Len(line) > n
           /\ SubSeq(line, 1, n) = prefix
           /\ \A k \in (n + 1)..Len(line) : line[k] \notin LineTerminator
        THEN [matched |-> TRUE, group |-> SubSeq(line, n + 1, Len(line))]
        ELSE NoMatch

\* line.match(/^! (.+)$/)
errorMatch(line) == MatchPrefixed(ErrorPrefix, line)

\* line.match(/^LaTeX Warning: (.+)$/)
warningMatch(line) == MatchPrefixed(WarningPrefix, line)

\* whether /l\.(\d+)/ matches at position p of the line
MarkerAt(line, p) ==
    /\ p + 2 <= Len(line)
    /\ line[p] = "l"
    /\ line[p + 1] = "."
    /\ line[p + 2] \in Digit

\* the end of the greedy run of digits that starts at position p
RECURSIVE DigitsEnd(_, _)
DigitsEnd(line, p) ==
    IF p + 1 <= Len(line) /\ line[p + 1] \in Digit
    THEN DigitsEnd(line, p + 1)
    ELSE p

\* line.match(/l\.(\d+)/): the leftmost match, digits taken greedily
lineMatch(line) ==
    IF \E p \in 1..Len(line) : MarkerAt(line, p)
    THEN LET p == CHOOSE q \in 1..Len(line) :
                      /\ MarkerAt(line, q)
                      /\ \A r \in 1..(q - 1) : ~MarkerAt(line, r)
         IN  [matched |-> TRUE, group |-> SubSeq(line, p + 2, DigitsEnd(line, p + 2))]
    ELSE NoMatch

\* variant: the messages are not truncated
LineRecordsUntruncated(line) ==
    LET em == errorMatch(line)
        lm == lineMatch(line)
        wm == warningMatch(line)
        lineNumber == IF lm.matched THEN parseInt(lm.group) ELSE 0
    IN  (IF em.matched
         THEN <<[line |-> Max(0, lineNumber), message |-> em.group, type |-> "error"]>>
         ELSE <<>>)
        \o
        (IF wm.matched
         THEN <<[line |-> 0, message |-> wm.group, type |-> "warning"]>>
         ELSE <<>>)

\* the records one iteration of the loop of parseLatexErrors pushes
LineRecords(line) ==
    LET em == errorMatch(line)
        lm == lineMatch(line)
        wm == warningMatch(line)
        lineNumber == IF lm.matched THEN parseInt(lm.group) ELSE 0
    IN  (IF em.matched
         THEN <<[line    |-> Max(0, lineNumber),
                 message |-> Take(em.group, MaxDiagnosticLen),
                 type    |-> "error"]>>
         ELSE <<>>)
        \o
        (IF wm.matched
         THEN <<[line    |-> 0,
                 message |-> Take(wm.group, MaxDiagnosticLen),
                 type    |-> "warning"]>>
         ELSE <<>>)

RECURSIVE ScanLines(_, _, _)
ScanLines(lines, k, errors) ==
    IF k > Len(lines) THEN errors
    ELSE ScanLines(lines, k + 1, errors \o LineRecords(lines[k]))

parseLatexErrors(text) == ScanLines(Split(text), 1, <<>>)

-----------------------------------------------------------------------------
(* JavaScript values of a request body.  A scalar carries its type, its    *)
(* truthiness when the type leaves it open, and for a string its length    *)
(* and the number of base64 characters Buffer.from(s, 'base64') decodes.   *)

Scalar(k, t, n, b) == [kind |-> k, truthy |-> t, len |-> n, b64chars |-> b]

Undefined == Scalar("undefined", FALSE, 0, 0)

Number(t) == Scalar("number", t, 0, 0)

\* a string of n characters, the first b of them base64 characters
Str(n, b) == Scalar("string", n > 0, n, b)

\* ToBoolean of a scalar
Truthy(v) ==
    CASE v.kind \in {"undefined", "null"}   -> FALSE
      [] v.kind \in {"boolean", "number"}   -> v.truthy
      [] v.kind = "string"                  -> v.len > 0
      [] OTHER                              -> TRUE

\* the value of req.body.projectFiles: any JSON value, with its truthiness;
\* a list has items
Json(k, t, items) == [kind |-> k, truthy |-> t, items |-> items]

Array(items) == Json("array", TRUE, items)

\* an element of projectFiles: null, a number, or an object whose name and
\* type are strings ("" when the property is missing) and whose content is
\* a scalar
File(name, content, type) ==
    [kind |-> "object", name |-> name, content |-> content, type |-> type]

NullFile == [kind |-> "null", name |-> "", content |-> Undefined, type |-> ""]

NumberFile == [kind |-> "number", name |-> "", content |-> Undefined, type |-> ""]

\* Buffer.from(content, 'base64').length for a string content
DecodedLength(content) == (content.b64chars * 3) \div 4

\* fewest base64 characters that decode to more than MaxImageBytes bytes
OversizeImageChars == ((MaxImageBytes + 1) * 4 + 2) \div 3

-----------------------------------------------------------------------------
(* The requests and remote answers enumerated *)

LatexSamples ==
    { Undefined, Number(TRUE), Str(0, 0), Str(1, 0),
      Str(MaxLatexLen, 0), Str(MaxLatexLen + 1, 0) }

FullText == File("refs.bib", Str(MaxTextLen, 0), "text")

FileSamples ==
    { NullFile,
      NumberFile,
      File("fig.png", Str(8, 8), "image"),
      File("fig.png", Str(8, 3), "image"),
      File("big.png", Str(OversizeImageChars - 1, OversizeImageChars - 1), "image"),
      File("big.png", Str(OversizeImageChars, OversizeImageChars), "image"),
      FullText,
      File("refs.bib", Str(MaxTextLen + 1, 0), "text"),
      File("main.tex", Str(5, 0), "text"),
      File("", Str(5, 0), "text"),
      File("a.tex", Str(0, 0), "text"),
      File("a.tex", Str(5, 0), ""),
      File("fig.png", Number(TRUE), "image"),
      File("a.tex", Number(TRUE), "text") }

RECURSIVE SeqsUpTo(_, _)
SeqsUpTo(S, n) ==
    IF n = 0 THEN {<<>>}
    ELSE LET shorter == SeqsUpTo(S, n - 1)
         IN  shorter \cup {Append(s, x) : s \in shorter, x \in S}

Repeat(x, n) == [k \in 1..n |-> x]

ProjectFilesSamples ==
    { Json("undefined", FALSE, <<>>), Json("null", FALSE, <<>>),
      Json("boolean", FALSE, <<>>), Json("number", FALSE, <<>>),
      Json("string", FALSE, <<>>), Json("string", TRUE, <<>>),
      Json("boolean", TRUE, <<>>), Json("number", TRUE, <<>>),
      Json("object", TRUE, <<>>) }
    \cup {Array(s) : s \in SeqsUpTo(FileSamples, MaxFiles)}
    \cup {Array(Repeat(FullText, n)) : n \in {MaxProjectFiles, MaxProjectFiles + 1}}

-----------------------------------------------------------------------------
(* Lines and texts of remote logs enumerated *)

LineUndefined ==
    <<"!", " ", "U", "n", "d", "e", "f", "i", "n", "e", "d", " ", "c", "o", "n", "t", "r", "o", "l", " ", "s", "e", "q", "u", "e", "n", "c", "e", ".">>

LineMissingMarked ==
    <<"!", " ", "M", "i", "s", "s", "i", "n", "g", " ", "$", " ", "i", "n", "s", "e", "r", "t", "e", "d", ".", " ", "l", ".", "1", "2", " ", "\\", "f", "o", "o">>

LineMarkerOnly ==
    <<"l", ".", "7", " ", "\\", "b", "a", "r">>

LineWarning ==
    <<"L", "a", "T", "e", "X", " ", "W", "a", "r", "n", "i", "n", "g", ":", " ", "R", "e", "f", "e", "r", "e", "n", "c", "e", " ", "u", "n", "d", "e", "f", "i", "n", "e", "d">>

LineBareBang ==
    <<"!", " ">>

LineLateBang ==
    <<"x", "!", " ", "l", "a", "t", "e", " ", "b", "a", "n", "g">>

LineCarriageReturn ==
    <<"!", " ", "C", "R", " ", "a", "t", " ", "e", "n", "d", "\r">>

LineTwoMarkers ==
    <<"!", " ", "u", "t", "i", "l", ".", "5", " ", "t", "h", "e", "n", " ", "l", ".", "3", "4">>

LineBareWarning ==
    <<"L", "a", "T", "e", "X", " ", "W", "a", "r", "n", "i", "n", "g", ":", " ">>

LineLeadingZeros ==
    <<"!", " ", "l", ".", "x", " ", "l", ".", "0", "0", "7">>

LineIndentedWarning ==
    <<" ", "L", "a", "T", "e", "X", " ", "W", "a", "r", "n", "i", "n", "g", ":", " ", "i", "n", "d", "e", "n", "t", "e", "d">>

Pad(n) == [k \in 1..n |-> "x"]

LineLongError == ErrorPrefix \o Pad(MaxDiagnosticLen + 5)

LineLongWarning == WarningPrefix \o Pad(MaxDiagnosticLen + 1)

LineSamples ==
    { <<>>, LineUndefined, LineMissingMarked, LineMarkerOnly, LineWarning,
      LineBareBang, LineLateBang, LineCarriageReturn, LineTwoMarkers,
      LineBareWarning, LineLeadingZeros, LineIndentedWarning,
      LineLongError, LineLongWarning }

\* the lines joined by newlines
RECURSIVE Join(_)
Join(lines) ==
    IF lines = <<>> THEN <<>>
    ELSE IF Len(lines) = 1 THEN lines[1]
    ELSE lines[1] \o <<"\n">> \o Join(Tail(lines))

LogSamples == {Join(ls) : ls \in SeqsUpTo(LineSamples, MaxLogLines)}

\* bodies of remote error responses: empty, a short log, a log of more
\* diagnostics than MaxErrors, a text longer than MaxErrorMessageLen
BodySamples ==
    { <<>>,
      Join(<<LineMarkerOnly, LineMissingMarked, LineWarning, LineUndefined>>),
      Join([k \in 1..(MaxErrors + 3) |->
               IF k % 2 = 1 THEN LineTwoMarkers ELSE LineWarning]),
      Join(<<LineUndefined, Pad(MaxErrorMessageLen), LineWarning>>) }

ErrorStatuses == {400, 502}

TransportCodes ==
    {"ECONNABORTED", "ENOTFOUND", "ECONNREFUSED", "EHOSTUNREACH", "ECONNRESET"}

PdfLengths == {0, 1, 3000}

-----------------------------------------------------------------------------
(* The tar-stream pack the handler writes to *)

NoPack ==
    [created |-> FALSE, entries |-> <<>>, stream |-> FALSE,
     finalizing |-> FALSE, finalized |-> FALSE]

\* tar.pack()
NewPack == [NoPack EXCEPT !.created = TRUE]

EntryData(k, n) == [kind |-> k, len |-> n]

\* pack.entry({ name }, data): the packs it may leave and whether it threw.
\* A string or Buffer is written whole.  Any other data opens a streaming
\* entry that nothing ever ends; while it is open a further entry throws
\* 'already piping an entry' (tar-stream 1 and 2) or is queued behind it
\* (tar-stream 3), and finalize() is deferred until the entry ends.
PackEntry(p, name, data) ==
    IF p.stream
    THEN {[pack |-> p, threw |-> TRUE], [pack |-> p, threw |-> FALSE]}
    ELSE IF p.finalized
    THEN {[pack |-> p, threw |-> FALSE], [pack |-> p, threw |-> TRUE]}
    ELSE IF data.kind \in {"string", "buffer"}
    THEN {[pack  |-> [p EXCEPT !.entries = Append(@, [name |-> name, data |-> data])],
           threw |-> FALSE]}
    ELSE {[pack  |-> [p EXCEPT !.entries =
                                   Append(@, [name |-> name, data |-> EntryData("stream", 0)]),
                               !.stream = TRUE],
           threw |-> FALSE]}

\* pack.finalize()
PackFinalize(p) ==
    IF p.stream THEN [p EXCEPT !.finalizing = TRUE]
    ELSE [p EXCEPT !.finalized = TRUE]

RoundUpToBlock(n) == ((n + 511) \div 512) * 512

\* bytes of the tar stream: a header block and padded data per entry, and
\* the end-of-archive marker
RECURSIVE TarLength(_)
TarLength(entries) ==
    IF entries = <<>> THEN 1024
    ELSE 512 + RoundUpToBlock(entries[1].data.len) + TarLength(Tail(entries))

\* lengths Buffer.concat(chunks) may have: the gzip output is as short as
\* the data compresses, and no longer than the tar stream
GzipLengths(entries) ==
    {n \in {64, MaxTarballBytes, MaxTarballBytes + 1} : n <= TarLength(entries)}

-----------------------------------------------------------------------------
(* The decisions of the /api/compile handler *)

\* variant: projectFiles is taken as sent, without the default
ProjectFilesAsSent(v) == v

\* req.body.projectFiles || []
DefaultProjectFiles(v) == IF v.truthy THEN v ELSE Array(<<>>)

\* !latexCode || typeof latexCode !== 'string'
LatexMissing(latexCode) == ~Truthy(latexCode) \/ latexCode.kind # "string"

\* latexCode.length > 1024 * 1024
LatexTooLarge(latexCode) == latexCode.len > MaxLatexLen

\* !Array.isArray(projectFiles) || projectFiles.length > 50
FilesInvalid(files) == files.kind # "array" \/ Len(files.items) > MaxProjectFiles

\* variant: input validation without the length check of latexCode
ValidationErrorNoLengthCheck(latexCode, files) ==
    IF LatexMissing(latexCode) THEN MsgLatexRequired
    ELSE IF FilesInvalid(files) THEN MsgInvalidFiles
    ELSE <<>>

\* the message of the 400 response input validation sends, <<>> when it
\* sends none
ValidationError(latexCode, files) ==
    IF LatexMissing(latexCode) THEN MsgLatexRequired
    ELSE IF LatexTooLarge(latexCode) THEN MsgLatexTooLarge
    ELSE IF FilesInvalid(files) THEN MsgInvalidFiles
    ELSE <<>>

\* res.status(400).json({ success: false, error })
Rejection(message) ==
    [status |-> 400, fields |-> {"success", "error"}, success |-> FALSE,
     error |-> message, errors |-> <<>>, pdf |-> 0]

\* reading file.name of null throws a TypeError
FileThrows(file) == file.kind = "null"

\* !file.name || !file.content || !file.type
FileIncomplete(file) ==
    file.kind # "object" \/ file.name = "" \/ ~Truthy(file.content) \/ file.type = ""

\* variant: images are held to the limit of text files
FileEntryOneLimit(file) ==
    IF file.content.kind # "string"
    THEN [add |-> file.type # "image", data |-> EntryData("other", 0)]
    ELSE IF file.type = "image"
    THEN IF DecodedLength(file.content) > MaxTextLen
         THEN [add |-> FALSE, data |-> EntryData("none", 0)]
         ELSE [add |-> TRUE, data |-> EntryData("buffer", DecodedLength(file.content))]
    ELSE IF file.content.len > MaxTextLen
         THEN [add |-> FALSE, data |-> EntryData("none", 0)]
         ELSE [add |-> TRUE, data |-> EntryData("string", file.content.len)]

\* what the loop body does with a complete file: the data it passes to
\* pack.entry, or no entry.  Buffer.from of a content that is no string
\* throws, which the loop catches; the length of such a content is
\* undefined and no greater than any limit.
FileEntry(file) ==
    IF file.type = "image"
    THEN IF file.content.kind # "string"
         THEN [add |-> FALSE, data |-> EntryData("none", 0)]
         ELSE IF DecodedLength(file.content) > MaxImageBytes
         THEN [add |-> FALSE, data |-> EntryData("none", 0)]
         ELSE [add |-> TRUE, data |-> EntryData("buffer", DecodedLength(file.content))]
    ELSE IF file.content.kind = "string" /\ file.content.len > MaxTextLen
         THEN [add |-> FALSE, data |-> EntryData("none", 0)]
         ELSE IF file.content.kind = "string"
         THEN [add |-> TRUE, data |-> EntryData("string", file.content.len)]
         ELSE [add |-> TRUE, data |-> EntryData("other", 0)]

\* tarballBuffer.length > 50 * 1024 * 1024
TarballTooLarge(n) == n > MaxTarballBytes

\* Buffer.from(response.data).toString('base64').length
Base64Length(n) == 4 * ((n + 2) \div 3)

NoResponse == [present |-> FALSE, status |-> 0, data |-> <<>>]

NoError == [thrown |-> FALSE, response |-> NoResponse, code |-> ""]

\* an exception that is no axios error
InternalError == [thrown |-> TRUE, response |-> NoResponse, code |-> ""]

\* the errorMessage of the catch block
CatchMessage(err) ==
    IF err.response.present THEN Take(err.response.data, MaxErrorMessageLen)
    ELSE IF err.code = "ECONNABORTED" THEN MsgTimeout
    ELSE IF err.code = "ENOTFOUND" THEN MsgUnavailable
    ELSE MsgCompilationFailed

\* the errors of the catch block; parseThrew: parseLatexErrors threw
CatchErrors(err, parseThrew) ==
    IF err.response.present /\ ~parseThrew
    THEN parseLatexErrors(err.response.data)
    ELSE <<>>

\* variant: the status of the remote response is not forwarded
CatchStatusAlways500(err) == 500

\* error.response?.status || 500
CatchStatus(err) ==
    IF err.response.present /\ err.response.status # 0
    THEN err.response.status
    ELSE 500

\* the response the catch block sends
CatchResponse(err, parseThrew) ==
    [status |-> CatchStatus(err), fields |-> {"success", "error", "errors"},
     success |-> FALSE, error |-> CatchMessage(err),
     errors |-> Take(CatchErrors(err, parseThrew), MaxErrors), pdf |-> 0]

-----------------------------------------------------------------------------
(* One request to POST /api/compile *)

Init ==
    /\ pc = "validate"
    /\ req \in [latexCode : LatexSamples, projectFiles : ProjectFilesSamples]
    /\ projectFiles = Json("undefined", FALSE, <<>>)
    /\ pack = NoPack
    /\ idx = 0
    /\ tarballBuffer = 0
    /\ remoteCalls = 0
    /\ error = NoError
    /\ parseFailed = FALSE
    /\ responses = <<>>
    /\ socket = "open"
    /\ log = <<>>
    /\ parsed = <<>>

\* res.json / res.status().json: the response goes out and the handler ends
Send(response) ==
    /\ responses' = Append(responses, response)
    /\ pc' = "done"

\* an exception reaches the handler's catch block
Throw(err) ==
    /\ error' = err
    /\ pc' = "catch"

\* lines 89-112: read the body, default projectFiles, validate the input
Validate ==
    /\ pc = "validate"
    /\ projectFiles' = DefaultProjectFiles(req.projectFiles)
    /\ LET message == ValidationError(req.latexCode, projectFiles')
       IN  IF message # <<>>
           THEN Send(Rejection(message))
           ELSE /\ pc' = "pack"
                /\ UNCHANGED responses
    /\ UNCHANGED <<req, pack, idx, tarballBuffer, remoteCalls, error,
                   parseFailed, socket, log, parsed>>

\* lines 115-118: create the pack and write main.tex
CreatePack ==
    /\ pc = "pack"
    /\ \E o \in PackEntry(NewPack, "main.tex", EntryData("string", req.latexCode.len)) :
           /\ ~o.threw
           /\ pack' = o.pack
    /\ idx' = 1
    /\ pc' = "files"
    /\ UNCHANGED <<req, projectFiles, tarballBuffer, remoteCalls, error,
                   parseFailed, responses, socket, log, parsed>>

\* lines 121-142: one iteration of the loop over projectFiles
AddFile ==
    /\ pc = "files"
    /\ idx <= Len(projectFiles.items)
    /\ LET file == projectFiles.items[idx]
       IN  IF FileThrows(file)
           THEN /\ Throw(InternalError)
                /\ UNCHANGED <<pack, idx>>
           ELSE IF FileIncomplete(file) \/ ~FileEntry(file).add
           THEN /\ idx' = idx + 1
                /\ UNCHANGED <<pack, pc, error>>
           ELSE \E o \in PackEntry(pack, file.name, FileEntry(file).data) :
                    IF o.threw
                    THEN /\ Throw(InternalError)
                         /\ UNCHANGED <<pack, idx>>
                    ELSE /\ pack' = o.pack
                         /\ idx' = idx + 1
                         /\ UNCHANGED <<pc, error>>
    /\ UNCHANGED <<req, projectFiles, tarballBuffer, remoteCalls, parseFailed,
                   responses, socket, log, parsed>>

\* line 144: the loop is over, pack.finalize()
Finalize ==
    /\ pc = "files"
    /\ idx > Len(projectFiles.items)
    /\ pack' = PackFinalize(pack)
    /\ pc' = "gzip"
    /\ UNCHANGED <<req, projectFiles, idx, tarballBuffer, remoteCalls, error,
                   parseFailed, responses, socket, log, parsed>>

\* lines 147-162: the gzip stream ends once the pack is finalized; the
\* total size check
Gzip ==
    /\ pc = "gzip"
    /\ socket = "open"
    /\ pack.finalized
    /\ \E n \in GzipLengths(pack.entries) :
           /\ tarballBuffer' = n
           /\ IF TarballTooLarge(n)
              THEN Send(Rejection(MsgProjectTooLarge))
              ELSE /\ pc' = "post"
                   /\ UNCHANGED responses
    /\ UNCHANGED <<req, projectFiles, pack, idx, remoteCalls, error,
                   parseFailed, socket, log, parsed>>

\* lines 70-74: the 120 s timeout of the request's socket.  No 'timeout'
\* listener is set, so the socket is destroyed.  Every other wait of the
\* handler is shorter (the remote call times out after 60 or 90 s); only
\* the wait for a gzip stream that never ends lasts that long.
SocketTimeout ==
    /\ pc = "gzip"
    /\ socket = "open"
    /\ ~pack.finalized
    /\ socket' = "destroyed"
    /\ UNCHANGED <<pc, req, projectFiles, pack, idx, tarballBuffer, remoteCalls,
                   error, parseFailed, responses, log, parsed>>

\* lines 165-185: axios.post to the remote service
Post ==
    /\ pc = "post"
    /\ remoteCalls' = remoteCalls + 1
    /\ pc' = "await"
    /\ UNCHANGED <<req, projectFiles, pack, idx, tarballBuffer, error,
                   parseFailed, responses, socket, log, parsed>>

\* lines 188-193: the remote service answers with a PDF
PostResolves ==
    /\ pc = "await"
    /\ \E n \in PdfLengths :
           Send([status |-> 200, fields |-> {"success", "pdf"}, success |-> TRUE,
                 error |-> <<>>, errors |-> <<>>, pdf |-> Base64Length(n)])
    /\ UNCHANGED <<req, projectFiles, pack, idx, tarballBuffer, remoteCalls,
                   error, parseFailed, socket, log, parsed>>

\* axios rejects: the remote service answered with an error status
PostRejectsWithResponse ==
    /\ pc = "await"
    /\ \E status \in ErrorStatuses, body \in BodySamples :
           Throw([thrown   |-> TRUE,
                  response |-> [present |-> TRUE, status |-> status, data |-> body],
                  code     |-> "ERR_BAD_RESPONSE"])
    /\ UNCHANGED <<req, projectFiles, pack, idx, tarballBuffer, remoteCalls,
                   parseFailed, responses, socket, log, parsed>>

\* axios rejects: no response arrived (timeout, DNS, connection)
PostRejectsWithoutResponse ==
    /\ pc = "await"
    /\ \E code \in TransportCodes :
           Throw([thrown |-> TRUE, response |-> NoResponse, code |-> code])
    /\ UNCHANGED <<req, projectFiles, pack, idx, tarballBuffer, remoteCalls,
                   parseFailed, responses, socket, log, parsed>>

\* lines 195-225: the catch block.  Its inner try (lines 207-213) catches
\* an exception of the parsing and leaves errors empty.
Catch ==
    /\ pc = "catch"
    /\ \E parseThrew \in (IF error.response.present THEN BOOLEAN ELSE {FALSE}) :
           /\ parseFailed' = parseThrew
           /\ Send(CatchResponse(error, parseThrew))
    /\ UNCHANGED <<req, projectFiles, pack, idx, tarballBuffer, remoteCalls,
                   error, socket, log, parsed>>

Next ==
    \/ Validate
    \/ CreatePack
    \/ AddFile
    \/ Finalize
    \/ Gzip
    \/ SocketTimeout
    \/ Post
    \/ PostResolves
    \/ PostRejectsWithResponse
    \/ PostRejectsWithoutResponse
    \/ Catch

Spec == Init /\ [][Next]_vars

-----------------------------------------------------------------------------
(* parseLatexErrors applied to a log text *)

InitParse ==
    /\ pc = "parse"
    /\ log \in LogSamples
    /\ parsed = <<>>
    /\ req = [latexCode |-> Undefined, projectFiles |-> Json("undefined", FALSE, <<>>)]
    /\ projectFiles = Json("undefined", FALSE, <<>>)
    /\ pack = NoPack
    /\ idx = 0
    /\ tarballBuffer = 0
    /\ remoteCalls = 0
    /\ error = NoError
    /\ parseFailed = FALSE
    /\ responses = <<>>
    /\ socket = "open"

Parse ==
    /\ pc = "parse"
    /\ parsed' = parseLatexErrors(log)
    /\ pc' = "parsed"
    /\ UNCHANGED <<req, projectFiles, pack, idx, tarballBuffer, remoteCalls,
                   error, parseFailed, responses, socket, log>>

NextParse == Parse

SpecParse == InitParse /\ [][NextParse]_vars

-----------------------------------------------------------------------------
(* Properties *)

Finished == pc = "done" \/ socket = "destroyed"

\* the latexCode of the request is absent, not a string, or empty
LatexAbsent == req.latexCode.kind # "string" \/ req.latexCode.len = 0

\* the latexCode of the request is a string longer than 1 MiB
LatexOverOneMiB == req.latexCode.kind = "string" /\ req.latexCode.len > 1024 * 1024

\* the one response of the request is a 400 with success = false
RejectedLocally ==
    /\ pc = "done"
    /\ Len(responses) = 1
    /\ responses[1].status = 400
    /\ responses[1].success = FALSE

\* C1: a request whose latexCode is absent, not a string, empty or longer
\* than 1 MiB is answered 400 with success=false, without an archive and
\* without a remote call; one whose compressed archive exceeds 50 MiB is
\* answered 400 with success=false without a remote call; the remote call
\* is made only after input validation and the archive size check passed.
C1_FailFast ==
    /\ (pc # "validate" /\ (LatexAbsent \/ LatexOverOneMiB))
           => (RejectedLocally /\ ~pack.created /\ remoteCalls = 0)
    /\ tarballBuffer > 50 * 1024 * 1024
           => (RejectedLocally /\ remoteCalls = 0)
    /\ remoteCalls > 0
           => /\ ~LatexAbsent /\ ~LatexOverOneMiB
              /\ projectFiles.kind = "array" /\ Len(projectFiles.items) <= 50
              /\ pack.finalized
              /\ tarballBuffer > 0 /\ tarballBuffer <= 50 * 1024 * 1024

C1_Witness ==
    /\ RejectedLocally
    /\ tarballBuffer > 50 * 1024 * 1024
    /\ pack.finalized
    /\ responses[1].error = MsgProjectTooLarge

\* C2 as stated: a request whose projectFiles is present and is any
\* non-array value, the falsy ones (null, false, 0, "") included, or is a
\* list of more than 50 entries, is answered 400 with success=false,
\* without an archive and without a remote call.
C2_AnyNonArrayRejected ==
    (pc # "validate"
        /\ (req.projectFiles.kind \notin {"array", "undefined"}
               \/ Len(req.projectFiles.items) > 50))
    => (RejectedLocally /\ ~pack.created /\ remoteCalls = 0)

\* C2 amended: a request whose projectFiles is a truthy non-array value or
\* a list of more than 50 entries is answered 400 with success=false,
\* without an archive and without a remote call; a falsy projectFiles is
\* replaced by the empty list and does not make the request fail.
C2_TruthyNonArrayRejected ==
    /\ (pc # "validate"
           /\ \/ (req.projectFiles.kind # "array" /\ req.projectFiles.truthy)
              \/ Len(req.projectFiles.items) > 50)
       => (RejectedLocally /\ ~pack.created /\ remoteCalls = 0)
    /\ (pc # "validate" /\ ~req.projectFiles.truthy)
       => /\ projectFiles = Array(<<>>)
          /\ (~LatexAbsent /\ ~LatexOverOneMiB) => (pc = "pack" \/ pack.created)

C2_Witness ==
    /\ RejectedLocally
    /\ ~LatexAbsent /\ ~LatexOverOneMiB
    /\ req.projectFiles.kind = "array"
    /\ Len(req.projectFiles.items) = 51
    /\ responses[1].error = MsgInvalidFiles

\* C3: once a request passed input validation, no entry of projectFiles
\* makes it fail: the archive is built and, unless the archive is over the
\* size limit, the remote call is made.
C3_AuxiliaryFilesNeverFail ==
    (Finished /\ ~LatexAbsent /\ ~LatexOverOneMiB
        /\ projectFiles.kind = "array" /\ Len(projectFiles.items) <= 50)
    => /\ pack.finalized
       /\ remoteCalls = 1 \/ tarballBuffer > 50 * 1024 * 1024

\* the file has a name, a content and a type
HasNameContentType(file) ==
    /\ file.kind = "object"
    /\ file.name # ""
    /\ file.type # ""
    /\ file.content.kind \notin {"undefined", "null"}
    /\ file.content.kind = "string" => file.content.len > 0
    /\ file.content.kind \in {"number", "boolean"} => file.content.truthy

\* the file is within the ceiling of its kind
WithinCeiling(file) ==
    IF file.type = "image"
    THEN file.content.kind = "string"
         /\ (file.content.b64chars * 3) \div 4 <= 10 * 1024 * 1024
    ELSE file.content.kind = "string" => file.content.len <= 1024 * 1024

\* the archive entry of a file that is kept
EntryOf(file) ==
    [name |-> file.name,
     data |-> IF file.type = "image"
              THEN [kind |-> "buffer", len |-> (file.content.b64chars * 3) \div 4]
              ELSE [kind |-> "string", len |-> file.content.len]]

\* the positions in projectFiles of the files that are kept
KeptFiles ==
    {k \in 1..Len(projectFiles.items) :
        HasNameContentType(projectFiles.items[k]) /\ WithinCeiling(projectFiles.items[k])}

\* the entries of a finalized archive are main.tex holding latexCode, then
\* the kept files in input order
EntriesAsClaimed ==
    pack.finalized =>
        /\ Len(pack.entries) = 1 + Cardinality(KeptFiles)
        /\ pack.entries[1] =
               [name |-> "main.tex",
                data |-> [kind |-> "string", len |-> req.latexCode.len]]
        /\ \A k \in KeptFiles :
               pack.entries[1 + Cardinality({j \in KeptFiles : j <= k})]
                   = EntryOf(projectFiles.items[k])

HostUnreachable == {"ENOTFOUND", "ECONNREFUSED", "EHOSTUNREACH"}

\* C5: a remote call that fails without a remote response is answered with
\* status 500, success=false, an empty errors list, and the message
\* "Compilation timeout" after the local timeout, "Service temporarily
\* unavailable" for an unreachable or unresolvable host, and the generic
\* message otherwise.
C5_TransportFailureClassified ==
    (pc = "done" /\ remoteCalls = 1 /\ error.thrown /\ ~error.response.present)
    => /\ Len(responses) = 1
       /\ responses[1].status = 500
       /\ responses[1].success = FALSE
       /\ responses[1].errors = <<>>
       /\ responses[1].error =
              IF error.code = "ECONNABORTED" THEN MsgTimeout
              ELSE IF error.code \in HostUnreachable THEN MsgUnavailable
              ELSE MsgCompilationFailed

\* s is the first n elements of t, or all of t when t has fewer
IsPrefixOfAtMost(s, t, n) ==
    /\ Len(s) = IF Len(t) < n THEN Len(t) ELSE n
    /\ \A k \in 1..Len(s) : s[k] = t[k]

\* C6: a remote error response with a body is answered with the remote
\* status, success=false, the first 1000 characters of the body as error,
\* and the first 20 diagnostics of the body, in log order, as errors; when
\* parsing the body fails, errors is empty and error is still the
\* truncated body.
C6_UpstreamFailureForwarded ==
    (pc = "done" /\ error.thrown /\ error.response.present)
    => /\ Len(responses) = 1
       /\ responses[1].status = error.response.status
       /\ responses[1].success = FALSE
       /\ IsPrefixOfAtMost(responses[1].error, error.response.data, 1000)
       /\ IF parseFailed
          THEN responses[1].errors = <<>>
          ELSE IsPrefixOfAtMost(responses[1].errors,
                                parseLatexErrors(error.response.data), 20)

C6_Witness ==
    /\ pc = "done"
    /\ error.response.present
    /\ ~parseFailed
    /\ Len(parseLatexErrors(error.response.data)) > 20
    /\ Len(responses[1].errors) = 20
    /\ responses[1].status = 502

\* C7: every failure response of the handler has success = false, a string
\* error field and an errors field that is a list.
C7_UniformFailureEnvelope ==
    \A k \in 1..Len(responses) :
        ~responses[k].success =>
            {"success", "error", "errors"} \subseteq responses[k].fields

\* C9: the request ends with exactly one response: none is sent twice, and
\* a request that ended has got one.
C9_ExactlyOneResponse ==
    /\ Len(responses) <= 1
    /\ Finished => Len(responses) = 1

\* C10: the archive sent to the remote service has exactly one entry named
\* main.tex, and it holds latexCode.
C10_SingleMainTex ==
    remoteCalls > 0 =>
        /\ Cardinality({k \in 1..Len(pack.entries) : pack.entries[k].name = "main.tex"}) = 1
        /\ pack.entries[1].name = "main.tex"
        /\ pack.entries[1].data = [kind |-> "string", len |-> req.latexCode.len]

-----------------------------------------------------------------------------
(* Properties of parseLatexErrors *)

\* the line is of the form '<prefix><text>': the prefix, then a text of
\* one or more characters of the line, none of them a carriage return (the
\* (.+) of the patterns matches no line terminator)
HasForm(prefix, line) ==
    /\ Len(line) > Len(prefix)
    /\ \A k \in 1..Len(prefix) : line[k] = prefix[k]
    /\ \A k \in 1..Len(line) : line[k] # "\r"

\* the text of a line of the form '<prefix><text>'
TextAfter(prefix, line) == [k \in 1..(Len(line) - Len(prefix)) |-> line[k + Len(prefix)]]

\* the positions of the 'l.' markers of the line that a number follows
Markers(line) ==
    {p \in 1..(Len(line) - 2) :
        line[p] = "l" /\ line[p + 1] = "." /\ line[p + 2] \in Digit}

\* the number following the first 'l.' marker of the line, 0 without one
MarkedNumber(line) ==
    IF Markers(line) = {} THEN 0
    ELSE LET p == CHOOSE q \in Markers(line) : \A r \in Markers(line) : q <= r
             last == CHOOSE e \in (p + 2)..Len(line) :
                         /\ \A k \in (p + 2)..e : line[k] \in Digit
                         /\ e = Len(line) \/ line[e + 1] \notin Digit
         IN  parseInt(SubSeq(line, p + 2, last))

\* the record the claim gives a line of one of the two forms
RecordOf(line) ==
    IF HasForm(ErrorPrefix, line)
    THEN [line |-> MarkedNumber(line), type |-> "error",
          message |-> LET text == TextAfter(ErrorPrefix, line)
                      IN  [k \in 1..(IF Len(text) < 200 THEN Len(text) ELSE 200) |-> text[k]]]
    ELSE [line |-> 0, type |-> "warning",
          message |-> LET text == TextAfter(WarningPrefix, line)
                      IN  [k \in 1..(IF Len(text) < 200 THEN Len(text) ELSE 200) |-> text[k]]]

\* the positions of the lines of the log that are of one of the two forms
DiagnosticLines ==
    {k \in 1..Len(Split(log)) :
        HasForm(ErrorPrefix, Split(log)[k]) \/ HasForm(WarningPrefix, Split(log)[k])}

====
